---- MODULE Spec2Model ----
(***************************************************************************)
(* The delegation workflow engine of agents/app/graph.py: the session      *)
(* store, start_graph_session, apply_step_decision, get_graph_session and  *)
(* the recommendation sources they call.                                   *)
(*                                                                         *)
(* Numbers: every score and confidence is a fixed-point integer in units   *)
(* of 0.0001 (0.36 is 3600), so round(x, 4) is exact.                      *)
(* Strings built with f-strings are tuples of their parts.                 *)
(* An Optional[...] that is None is the record None (or NoneStr for str).  *)
(* A Python dict with optional keys is a function whose DOMAIN is the set  *)
(* of keys present.                                                        *)
(***************************************************************************)
EXTENDS Integers, Sequences, FiniteSets, TLC

VARIABLES
    SESSION_STORE,       \* graph.py:49   the dict session id -> GraphSessionState
    DEEP_AGENT_RUNTIME,  \* graph.py:50   "None" | "runtime" | "no_invoke", fixed at process start
    settings,            \* main.py:10    the frozen Settings the handlers pass on
    steps_created,       \* per session id, the PendingSteps _new_step has made (uuid source)
    accepted,            \* per session id, the decisions that passed the guards of
                         \* apply_step_decision since the stored session was created
    response,            \* what the last call returned or raised
    calls,               \* per session id, the call running on it in a handler thread:
                         \* its position and locals (Idle when none, and always when
                         \* calls run one at a time); per handler thread where two
                         \* threads decide on one session id
    probe                \* the last direct call of a scoring function: its name,
                         \* arguments and result (NoProbe when the handlers run)

vars == <<SESSION_STORE, DEEP_AGENT_RUNTIME, settings, steps_created, accepted, response, calls,
          probe>>

----------------------------------------------------------------------------
(* Bounds of the model *)

\* ids _new_step may hand out per session id (uuid4 never runs out)
MaxStepIds == 3
\* Decide calls on one session that may end by raising in a collaborator
MaxRaises == 1

----------------------------------------------------------------------------
(* Values *)

None == [none |-> TRUE]
NoneStr == "<None>"
\* no scoring function was called directly
NoProbe == [fn |-> "none"]

\* no call is running on the session id
Idle == [pc |-> "idle"]

\* SESSION_STORE.get(session_id) of an id that is no key
NoSession == [absent |-> TRUE]

\* the ids callers start sessions with, and the ids they ask about
SessionIds == {"session-1"}
AskedIds == SessionIds \cup {"session-x"}
LeadIds == {"lead-1", "lead-unknown"}
ReviewerIds == {"synergy-1"}
Decisions == {"APPROVE", "REJECT"}
\* StepDecisionRequest.reason: absent, empty, or a text
Reasons(decision) == IF decision = "REJECT" THEN {NoneStr, "", "not relevant"} ELSE {"ok"}

\* min without the comparison
Min_NoClamp(a, b) == a

Min(a, b) == IF a < b THEN a ELSE b

\* str.lower() on the fact values and SKU texts the model uses
Lower(s) ==
    CASE s = "Infrastructure" -> "infrastructure"
      [] OTHER -> s

\* str.strip() on the fact keys/values and codes the model uses
Strip(s) ==
    CASE s = " " -> ""
      [] s = " project_type" -> "project_type"
      [] s = " SAG " -> "SAG"
      [] OTHER -> s

\* dict.get(key, default)
DictGet(d, key, default) == IF key \in DOMAIN d THEN d[key] ELSE default

----------------------------------------------------------------------------
(* tools.py: the read-only collaborators, as the data they return *)

get_lead_snapshot(lead_id) ==
    CASE lead_id = "lead-1" ->
           [lead |-> [id |-> lead_id],
            facts |-> << [factKey |-> " project_type", factValue |-> "commercial"],
                         [factKey |-> "development_type", factValue |-> " "],
                         [factKey |-> "development_type", factValue |-> "fit_out"],
                         [factKey |-> "project_type", factValue |-> "Infrastructure"] >>]
      [] OTHER -> [lead |-> None, facts |-> << >>]

\* the catalogs list_business_units may return (ORDER BY name)
Catalogs ==
    { << >>,
      << [code |-> "GCAST"], [code |-> "MAKNA"], [code |-> "SAG"], [code |-> "STARKEN_AAC"] >> }

get_routing_constraints ==
    [maxBusinessUnits |-> 3, maxCrossSell |-> 2, maxSkuPerBusinessUnit |-> 3]

\* the supported filter keys of find_similar_leads; no wanted filter, no query
find_similar_leads(filters) ==
    IF \E k \in {"project_type", "project_stage", "development_type", "region"} :
           k \in DOMAIN filters /\ filters[k] # ""
    THEN << [leadId |-> "lead-9", matchCount |-> 1] >>
    ELSE << >>

get_business_unit_profile(bu_code) ==
    IF bu_code \in {"GCAST", "MAKNA", "SAG", "STARKEN_AAC"}
    THEN [businessUnit |-> [code |-> bu_code], activeSkuCount |-> 1]
    ELSE [businessUnit |-> None, activeSkuCount |-> 0]

\* list_bu_skus: rows [id, text], text being "skuCode skuName skuCategory"
list_bu_skus(bu_code) ==
    CASE bu_code = "SAG" ->
           << [id |-> "sag-1", text |-> "SAG-01 ceiling works"],
              [id |-> "sag-2", text |-> "SAG-02 interior fit out"],
              [id |-> "sag-3", text |-> "SAG-03 partition panel"],
              [id |-> "sag-4", text |-> "SAG-04 skim coat render"] >>
      [] bu_code = "STARKEN_AAC" ->
           << [id |-> "aac-1", text |-> "AAC-01 aac block"] >>
      [] bu_code = "GCAST" ->
           << [id |-> "gc-1", text |-> "GC-01 precast drain"],
              [id |-> "gc-2", text |-> "GC-02 kerb"] >>
      [] OTHER -> << >>

----------------------------------------------------------------------------
(* graph.py: facts and scoring *)

RECURSIVE NormalizeFrom(_, _)
NormalizeFrom(facts, mapping) ==
    IF facts = << >> THEN mapping
    ELSE LET key == Strip(Head(facts).factKey)
             value == Strip(Head(facts).factValue)
         IN  NormalizeFrom(Tail(facts),
                 IF key # "" /\ value # "" /\ key \notin DOMAIN mapping
                 THEN (key :> value) @@ mapping
                 ELSE mapping)

_normalize_fact_map(facts) == NormalizeFrom(facts, << >>)

\* `kw in s` for the lowercased fact values and SKU texts the model uses
Contains(s, kw) ==
    kw \in (CASE s = "infrastructure" -> {"infrastructure"}
              [] s = "SAG-02 interior fit out" -> {"interior", "fit"}
              [] s = "SAG-03 partition panel" -> {"panel"}
              [] s = "SAG-04 skim coat render" -> {"skim", "render"}
              [] s = "AAC-01 aac block" -> {"aac", "block"}
              [] s = "GC-01 precast drain" -> {"precast", "drain"}
              [] s = "MIX-01 aac skim render precast interior fit" ->
                     {"aac", "skim", "render", "precast", "interior", "fit"}
              [] s = "MIX-02 panel drymix manhole" -> {"panel", "drymix", "manhole"}
              [] OTHER -> {})

_score_business_unit(code, facts) ==
    LET project_type == Lower(DictGet(facts, "project_type", ""))
        development_type == Lower(DictGet(facts, "development_type", ""))
        project_stage == Lower(DictGet(facts, "project_stage", ""))
        r1 == code = "GCAST" /\ Contains(project_type, "infrastructure")
        r2 == code = "SAG" /\ development_type \in {"fit_out", "refurbishment"}
        r3 == code = "MAKNA" /\ project_stage \in {"tender", "construction"}
        r4 == code = "STARKEN_AAC" /\ project_type \in {"residential", "commercial"}
        r5 == code = "STARKEN_DRYMIX" /\ development_type # ""
        score == 3600 + (IF r1 THEN 3700 ELSE 0) + (IF r2 THEN 3300 ELSE 0)
                      + (IF r3 THEN 2500 ELSE 0) + (IF r4 THEN 2700 ELSE 0)
                      + (IF r5 THEN 2300 ELSE 0)
        reasons == (IF r1 THEN <<"Infrastructure profile matches GCAST precast offerings.">> ELSE << >>)
                \o (IF r2 THEN <<"Fit-out/refurbishment scope aligns with SAG delivery.">> ELSE << >>)
                \o (IF r3 THEN <<"Tender/construction timeline favors MAKNA packages.">> ELSE << >>)
                \o (IF r4 THEN <<"Envelope demand suggests AAC product fit.">> ELSE << >>)
                \o (IF r5 THEN <<"Development scope indicates finishing material demand.">> ELSE << >>)
    IN  [score |-> Min(score, 9800),
         reason |-> IF reasons = << >>
                    THEN <<"General product-service fit from lead metadata.">>
                    ELSE reasons]

_score_sku_name(name, facts) ==
    LET normalized == name  \* Contains looks the lowercased text up
        project_type == Lower(DictGet(facts, "project_type", ""))
        development_type == Lower(DictGet(facts, "development_type", ""))
        any(kws) == \E k \in kws : Contains(normalized, k)
        score == 4200
                 + (IF any({"aac", "panel", "block"}) THEN 2000 ELSE 0)
                 + (IF any({"drymix", "render", "skim"}) THEN 2000 ELSE 0)
                 + (IF any({"drain", "manhole", "precast"}) THEN 2000 ELSE 0)
                 + (IF any({"fit", "interior"}) THEN 1800 ELSE 0)
                 + (IF project_type = "infrastructure" /\ any({"drain", "manhole", "precast"})
                    THEN 1200 ELSE 0)
                 + (IF development_type \in {"fit_out", "refurbishment"}
                       /\ any({"fit", "interior", "render", "skim"})
                    THEN 1200 ELSE 0)
    IN  Min(score, 9800)

\* list.sort(key=..., reverse=True) / sorted(..., reverse=True): descending and
\* stable, equal keys keep their order.  key is a function on 1..Len(s).
\* InsertDesc that puts an entry before the entries of equal key
RECURSIVE InsertDesc_Unstable(_, _, _)
InsertDesc_Unstable(sorted, i, key) ==
    IF sorted = << >> THEN <<i>>
    ELSE IF key[Head(sorted)] > key[i]
         THEN <<Head(sorted)>> \o InsertDesc_Unstable(Tail(sorted), i, key)
         ELSE <<i>> \o sorted

RECURSIVE InsertDesc(_, _, _)
InsertDesc(sorted, i, key) ==
    IF sorted = << >> THEN <<i>>
    ELSE IF key[Head(sorted)] >= key[i]
         THEN <<Head(sorted)>> \o InsertDesc(Tail(sorted), i, key)
         ELSE <<i>> \o sorted

RECURSIVE SortIndexFrom(_, _, _, _)
SortIndexFrom(sorted, i, n, key) ==
    IF i > n THEN sorted
    ELSE SortIndexFrom(InsertDesc(sorted, i, key), i + 1, n, key)

\* the permutation of 1..n that sorts by key, descending, stable
SortedIndexDesc(n, key) == SortIndexFrom(<< >>, 1, n, key)

\* seq[:n]
Take(s, n) == SubSeq(s, 1, Min(Len(s), IF n < 0 THEN 0 ELSE n))

_heuristic_bu_selection(lead_snapshot, business_units, constraints) ==
    LET facts == _normalize_fact_map(lead_snapshot.facts)
        scored == [i \in 1..Len(business_units) |->
                      [bu |-> business_units[i],
                       sr |-> _score_business_unit(business_units[i].code, facts)]]
        order == SortedIndexDesc(Len(scored), [i \in 1..Len(scored) |-> scored[i].sr.score])
        top_n == DictGet(constraints, "maxBusinessUnits", 3)
        selected == Take(order, top_n)
    IN  [index \in 1..Len(selected) |->
            LET item == scored[selected[index]]
            IN  [businessUnitCode |-> item.bu.code,
                 role |-> IF index = 1 THEN "PRIMARY" ELSE "CROSS_SELL",
                 finalScore |-> item.sr.score,
                 confidence |-> Min(9900, 4500 + (item.sr.score * 45) \div 100),
                 reasonSummary |-> item.sr.reason]]

----------------------------------------------------------------------------
(* graph.py: the model strategy *)

\* Python values the runtime may hand back, tagged by their type
PyStr(x) == [t |-> "str", s |-> x]
PyNum(x) == [t |-> "num", v |-> x]
PyNone == [t |-> "none"]
PyList(xs) == [t |-> "list", items |-> xs]
PyDict(d) == [t |-> "dict", d |-> d]

GoodJson ==
    "{\"buRecommendations\": [{\"businessUnitCode\": \" SAG \", \"finalScore\": 0.91, \"confidence\": \"0.7\", \"reasonSummary\": \"Interior scope.\"}, {\"businessUnitCode\": \"GCAST\"}]}"

\* json.loads on the strings the model uses: the parsed value, or JSONDecodeError
JsonLoads(text) ==
    CASE text = GoodJson ->
           [ok |-> TRUE,
            value |-> PyDict([buRecommendations |-> PyList(<<
                PyDict([businessUnitCode |-> PyStr(" SAG "), finalScore |-> PyNum(9100),
                        confidence |-> PyStr("0.7"), reasonSummary |-> PyStr("Interior scope.")]),
                PyDict([businessUnitCode |-> PyStr("GCAST")]) >>)])]
      [] text = "[1, 2]" -> [ok |-> TRUE, value |-> PyList(<< PyNum(1), PyNum(2) >>)]
      [] OTHER -> [ok |-> FALSE]

\* float(x): the number, or ValueError (a text that is no number) or TypeError
ToFloat(x) ==
    CASE x.t = "num" -> [ok |-> TRUE, v |-> x.v]
      [] x.t = "str" /\ x.s = "0.7" -> [ok |-> TRUE, v |-> 7000]
      [] x.t = "str" -> [ok |-> FALSE, exc |-> "ValueError"]
      [] OTHER -> [ok |-> FALSE, exc |-> "TypeError"]

\* str(x)
ToStr(x) ==
    CASE x.t = "str" -> x.s
      [] x.t = "none" -> "None"
      [] OTHER -> "<object>"

\* what DEEP_AGENT_RUNTIME.invoke(prompt) may do: raise, or return one of these
RuntimeAnswers ==
    { [raises |-> TRUE],
      [raises |-> FALSE, raw |-> PyNum(7)],
      [raises |-> FALSE, raw |-> PyStr("I recommend SAG")],
      [raises |-> FALSE, raw |-> PyStr("[1, 2]")],
      [raises |-> FALSE, raw |-> PyStr(GoodJson)],
      [raises |-> FALSE, raw |-> PyDict([summary |-> PyStr("none")])],
      [raises |-> FALSE, raw |-> PyDict([buRecommendations |-> PyStr("SAG")])],
      [raises |-> FALSE, raw |-> PyDict([buRecommendations |-> PyList(<< >>)])],
      [raises |-> FALSE, raw |-> PyDict([buRecommendations |-> PyList(<<
            PyStr("SAG"),
            PyDict([finalScore |-> PyNum(9000)]),
            PyDict([businessUnitCode |-> PyStr(" ")]) >>)])],
      [raises |-> FALSE, raw |-> PyDict([buRecommendations |-> PyList(<<
            PyDict([finalScore |-> PyNum(9000)]),
            PyDict([businessUnitCode |-> PyStr("SAG"), finalScore |-> PyNum(15000)]) >>)])],
      [raises |-> FALSE, raw |-> PyDict([buRecommendations |-> PyList(<<
            PyDict([businessUnitCode |-> PyStr("SAG"), finalScore |-> PyStr("high")]) >>)])],
      [raises |-> FALSE, raw |-> PyDict([buRecommendations |-> PyList(<<
            PyDict([businessUnitCode |-> PyStr("SAG"), confidence |-> PyNone]) >>)])],
      [raises |-> FALSE, raw |-> PyDict([buRecommendations |-> PyList(<<
            PyDict([businessUnitCode |-> PyStr("SAG")]),
            PyDict([businessUnitCode |-> PyStr("SAG")]),
            PyDict([businessUnitCode |-> PyStr("NOT_IN_CATALOG")]),
            PyDict([businessUnitCode |-> PyStr("GCAST")]) >>)])] }

\* the loop of _maybe_model_bu_selection over candidates[index..]: the accepted
\* recommendations, or the exception float() raised
RECURSIVE ModelCandidatesFrom(_, _, _)
ModelCandidatesFrom(candidates, index, recommendations) ==
    IF index > Len(candidates) THEN [ok |-> TRUE, recs |-> recommendations]
    ELSE LET item == candidates[index]
             code == IF item.t = "dict"
                     THEN Strip(ToStr(DictGet(item.d, "businessUnitCode", PyStr(""))))
                     ELSE ""
             finalScore == ToFloat(DictGet(item.d, "finalScore", PyNum(5000)))
             confidence == ToFloat(DictGet(item.d, "confidence", PyNum(5000)))
         IN  IF item.t # "dict" \/ code = ""
             THEN ModelCandidatesFrom(candidates, index + 1, recommendations)
             ELSE IF ~finalScore.ok THEN [ok |-> FALSE, exc |-> finalScore.exc]
             ELSE IF ~confidence.ok THEN [ok |-> FALSE, exc |-> confidence.exc]
             ELSE ModelCandidatesFrom(candidates, index + 1,
                      Append(recommendations,
                          [businessUnitCode |-> code,
                           \* enumerate() counts the candidates, index 0 is the first
                           role |-> IF index = 1 THEN "PRIMARY" ELSE "CROSS_SELL",
                           finalScore |-> finalScore.v,
                           confidence |-> confidence.v,
                           reasonSummary |->
                               <<ToStr(DictGet(item.d, "reasonSummary",
                                               PyStr("Recommended by deep agent.")))>>]))

\* lines 216-227: the candidates found in what the runtime returned, or PyNone
ModelCandidates(raw) ==
    LET loaded == IF raw.t = "str" THEN JsonLoads(raw.s) ELSE [ok |-> TRUE, value |-> raw]
    IN  IF ~loaded.ok THEN PyNone
        ELSE IF loaded.value.t = "dict"
             THEN DictGet(loaded.value.d, "buRecommendations", PyNone)
             ELSE PyNone

\* lines 228-249: what the loop over the candidates leaves
ModelRecommendations(got, constraints) ==
    IF ~got.ok THEN [kind |-> "raise", exc |-> got.exc]
    ELSE IF got.recs = << >> THEN [kind |-> "None"]
    ELSE [kind |-> "list",
          recs |-> Take(got.recs, DictGet(constraints, "maxBusinessUnits", 3))]

\* [kind |-> "None"] | [kind |-> "list", recs] | [kind |-> "raise", exc]
_maybe_model_bu_selection(runtime, answer, constraints) ==
    IF runtime = "None" \/ runtime = "no_invoke" THEN [kind |-> "None"]
    ELSE IF answer.raises THEN [kind |-> "None"]
    ELSE IF ModelCandidates(answer.raw).t # "list" THEN [kind |-> "None"]
    ELSE ModelRecommendations(
             ModelCandidatesFrom(ModelCandidates(answer.raw).items, 1, << >>),
             constraints)

----------------------------------------------------------------------------
(* graph.py: SKU proposals *)

RECURSIVE _build_sku_proposals(_, _)
_build_sku_proposals(lead_snapshot, bu_recommendations) ==
    IF bu_recommendations = << >> THEN << >>
    ELSE
    LET facts == _normalize_fact_map(lead_snapshot.facts)
        bu_code == Head(bu_recommendations).businessUnitCode
        skus == list_bu_skus(bu_code)
        ranked == Take(SortedIndexDesc(Len(skus),
                          [i \in 1..Len(skus) |-> _score_sku_name(skus[i].text, facts)]), 3)
    IN  [rank \in 1..Len(ranked) |->
            [businessUnitCode |-> bu_code,
             buSkuId |-> skus[ranked[rank]].id,
             rank |-> rank,
             confidence |-> _score_sku_name(skus[ranked[rank]].text, facts)]]
        \o _build_sku_proposals(lead_snapshot, Tail(bu_recommendations))

\* web_market_signal: what the search gives back when it is issued
SearchAnswers == {"raises", "no results", "results"}

\* web_market_signal without the except of lines 247-248
web_market_signal_NoCatch(s, searchAnswer) ==
    IF ~s.enable_market_signal_tool THEN << >>
    ELSE IF s.tavily_api_key = "" THEN << >>
    ELSE << [title |-> "Demand outlook", url |-> "https://example.test/a"] >>

web_market_signal(s, searchAnswer) ==
    IF ~s.enable_market_signal_tool THEN << >>
    ELSE IF s.tavily_api_key = "" THEN << >>
    ELSE IF searchAnswer = "results"
         THEN << [title |-> "Demand outlook", url |-> "https://example.test/a"] >>
         ELSE << >>

----------------------------------------------------------------------------
(* graph.py: the session state and its envelope *)

\* uuid.uuid4() for a step of session sid: an id no step had before
uuid4(sid) == <<sid, Len(steps_created[sid]) + 1>>

\* _new_step that names the subagent of a step after the first after its index
_new_step_ByIndex(stepId, subagent_name, step_index, payload) ==
    [stepId |-> stepId,
     stepIndex |-> step_index,
     subagentName |-> IF step_index = 1 THEN subagent_name ELSE "subagent_2",
     requestPayload |-> payload]

_new_step(stepId, subagent_name, step_index, payload) ==
    [stepId |-> stepId,
     stepIndex |-> step_index,
     subagentName |-> subagent_name,
     requestPayload |-> payload]

AgentMessage(agentId, recipientId, messageType, content, evidenceRefs) ==
    [agentId |-> agentId,
     recipientId |-> recipientId,
     messageType |-> messageType,
     content |-> content,
     evidenceRefs |-> evidenceRefs]

_session_to_envelope(state) ==
    [sessionId |-> state.request.sessionId,
     status |-> state.status,
     pendingStep |-> state.pending_step,
     agentMessages |-> state.agent_messages,
     draft |-> state.draft,
     finalResult |-> state.final_result,
     error |-> state.error]

\* a call's result: the envelope it returns, or the exception it raises
Returned(state) ==
    [raised |-> "", detail |-> "", envelope |-> _session_to_envelope(state)]

Raised(exc, detail) ==
    [raised |-> exc, detail |-> detail, envelope |-> None]

\* SESSION_STORE.get(session_id)
StoreGet(store, session_id) ==
    IF session_id \in DOMAIN store THEN store[session_id] ELSE NoSession

\* StorePut by assigning a new dict that holds the one session
StorePut_Rebuild(store, session_id, state) ==
    [k \in {session_id} |-> state]

\* SESSION_STORE[session_id] = state
StorePut(store, session_id, state) ==
    [k \in DOMAIN store \cup {session_id} |-> IF k = session_id THEN state ELSE store[k]]

----------------------------------------------------------------------------
(* graph.py: start_graph_session *)

StartSessionRequest(sessionId, leadId) ==
    [sessionId |-> sessionId, routingRunId |-> "rr-1", leadId |-> leadId,
     triggeredBy |-> "u1", threadId |-> "thread-1"]

\* StartFailedState with the draft of the pending state
StartFailedState_WithDraft(request, lead_snapshot, business_units) ==
    [request |-> request,
     status |-> "FAILED",
     lead_snapshot |-> lead_snapshot,
     business_units |-> business_units,
     draft |-> [constraints |-> get_routing_constraints,
                similarLeads |-> find_similar_leads(_normalize_fact_map(lead_snapshot.facts))],
     pending_step |-> None,
     agent_messages |-> << >>,
     final_result |-> None,
     error |-> "Lead snapshot not found."]

\* the state start_graph_session stores when the lead is not found
StartFailedState(request, lead_snapshot, business_units) ==
    [request |-> request,
     status |-> "FAILED",
     lead_snapshot |-> lead_snapshot,
     business_units |-> business_units,
     draft |-> << >>,
     pending_step |-> None,
     agent_messages |-> << >>,
     final_result |-> None,
     error |-> "Lead snapshot not found."]

\* the state start_graph_session stores when the lead exists
StartPendingState(request, lead_snapshot, business_units, stepId) ==
    LET similar == find_similar_leads(_normalize_fact_map(lead_snapshot.facts))
        first_step == _new_step(stepId, "bu_selector", 1,
                          [objective |-> "Select up to 3 business units for cross-sell.",
                           lead |-> lead_snapshot.lead,
                           factsCount |-> Len(lead_snapshot.facts),
                           businessUnitCount |-> Len(business_units),
                           similarLeadSignals |-> similar])
    IN  [request |-> request,
         status |-> "PENDING_APPROVAL",
         lead_snapshot |-> lead_snapshot,
         business_units |-> business_units,
         draft |-> [constraints |-> get_routing_constraints, similarLeads |-> similar],
         pending_step |-> first_step,
         agent_messages |->
             << AgentMessage("synergy_coordinator", "bu_selector", "DELEGATION_REQUEST",
                    <<"Requesting BU selection review for this lead.">>,
                    [stepId |-> first_step.stepId, threadId |-> request.threadId]) >>,
         final_result |-> None,
         error |-> NoneStr]

start_graph_session(request, business_units) ==
    LET sid == request.sessionId
        lead_snapshot == get_lead_snapshot(request.leadId)
    IN  IF lead_snapshot.lead = None
        THEN LET failed == StartFailedState(request, lead_snapshot, business_units)
             IN  /\ SESSION_STORE' = StorePut(SESSION_STORE, sid, failed)
                 /\ accepted' = [accepted EXCEPT ![sid] = << >>]
                 /\ response' = Returned(failed)
                 /\ UNCHANGED steps_created
        ELSE LET state == StartPendingState(request, lead_snapshot, business_units, uuid4(sid))
             IN  /\ Len(steps_created[sid]) < MaxStepIds
                 /\ SESSION_STORE' = StorePut(SESSION_STORE, sid, state)
                 /\ steps_created' = [steps_created EXCEPT ![sid] =
                        Append(@, [stepIndex |-> state.pending_step.stepIndex,
                                   subagentName |-> state.pending_step.subagentName])]
                 /\ accepted' = [accepted EXCEPT ![sid] = << >>]
                 /\ response' = Returned(state)

Start(sessionId, leadId, business_units) ==
    /\ start_graph_session(StartSessionRequest(sessionId, leadId), business_units)
    /\ UNCHANGED <<DEEP_AGENT_RUNTIME, settings, probe, calls>>

----------------------------------------------------------------------------
(* graph.py: apply_step_decision *)

StepDecisionRequest(decision, reviewerId, reason) ==
    [decision |-> decision, reviewerId |-> reviewerId, reason |-> reason]

\* `reason or default`: None and "" are falsy
OrElse(reason, default) == IF reason = NoneStr \/ reason = "" THEN default ELSE reason

\* f"Delegation rejected by {reviewerId}."
RejectedBy(reviewerId) ==
    CASE reviewerId = "synergy-1" -> "Delegation rejected by synergy-1."
      [] OTHER -> "Delegation rejected by <reviewer>."

\* f"Unsupported subagent: {subagentName}."
UnsupportedSubagent(subagentName) ==
    CASE subagentName = "bu_selector" -> "Unsupported subagent: bu_selector."
      [] subagentName = "sku_selector" -> "Unsupported subagent: sku_selector."
      [] OTHER -> "Unsupported subagent: <name>."

\* f"{businessUnitCode.lower()}_agent"
ProposalAgentId(businessUnitCode) ==
    CASE businessUnitCode = "SAG" -> "sag_agent"
      [] businessUnitCode = "STARKEN_AAC" -> "starken_aac_agent"
      [] businessUnitCode = "GCAST" -> "gcast_agent"
      [] businessUnitCode = "MAKNA" -> "makna_agent"
      [] businessUnitCode = "NOT_IN_CATALOG" -> "not_in_catalog_agent"
      [] OTHER -> "<code>_agent"

\* DecisionGuard without the comparison of the step id
DecisionGuard_AnyStepId(state, step_id) ==
    IF state = NoSession THEN "Session not found."
    ELSE IF state.pending_step = None
         THEN "Pending delegation step not found."
         ELSE ""

\* the guards of lines 412-430: "" when the decision is accepted
DecisionGuard(state, step_id) ==
    IF state = NoSession THEN "Session not found."
    ELSE IF state.pending_step = None \/ state.pending_step.stepId # step_id
         THEN "Pending delegation step not found."
         ELSE ""

\* lines 443-455
DecisionMessage(pending, decision) ==
    AgentMessage("synergy_coordinator", pending.subagentName, "DELEGATION_DECISION",
        <<"Synergy decision for ", pending.subagentName, ": ", decision.decision, ".">>,
        [stepId |-> pending.stepId,
         reviewerId |-> decision.reviewerId,
         reason |-> OrElse(decision.reason, "")])

\* RejectBranch without line 459
RejectBranch_KeepsStep(state, decision) ==
    [state EXCEPT !.status = "REJECTED",
                  !.error = OrElse(decision.reason, RejectedBy(decision.reviewerId))]

\* RejectBranch without the default of line 460
RejectBranch_ReasonOnly(state, decision) ==
    [state EXCEPT !.status = "REJECTED",
                  !.pending_step = None,
                  !.error = decision.reason]

\* RejectBranch that starts the audit log again
RejectBranch_ClearsLog(state, decision) ==
    [state EXCEPT !.status = "REJECTED",
                  !.pending_step = None,
                  !.agent_messages = << >>,
                  !.error = OrElse(decision.reason, RejectedBy(decision.reviewerId))]

\* RejectBranch that leaves the session IN_PROGRESS
RejectBranch_InProgress(state, decision) ==
    [state EXCEPT !.status = "IN_PROGRESS",
                  !.pending_step = None,
                  !.error = OrElse(decision.reason, RejectedBy(decision.reviewerId))]

\* lines 457-470
RejectBranch(state, decision) ==
    [state EXCEPT !.status = "REJECTED",
                  !.pending_step = None,
                  !.error = OrElse(decision.reason, RejectedBy(decision.reviewerId))]

\* lines 498-505
Preview(recommendations) ==
    [i \in 1..Len(recommendations) |->
        [businessUnitCode |-> recommendations[i].businessUnitCode,
         role |-> recommendations[i].role,
         confidence |-> recommendations[i].confidence]]

\* lines 476-484: the model's recommendations, else the heuristic ones
OrHeuristic(model, state, constraints) ==
    IF model.kind = "raise" THEN model
    ELSE IF model.kind = "None"
         THEN [kind |-> "list",
               recs |-> _heuristic_bu_selection(state.lead_snapshot,
                                                state.business_units, constraints)]
         ELSE model

\* lines 472-484: the recommendations of the two strategies, or the exception
SelectRecommendations(state, runtime, answer) ==
    LET constraints == IF "constraints" \in DOMAIN state.draft
                       THEN state.draft["constraints"]
                       ELSE get_routing_constraints
    IN  OrHeuristic(_maybe_model_bu_selection(runtime, answer, constraints),
                    state, constraints)

\* lines 485-536, selected being what the strategies gave; state already
\* holds the DELEGATION_DECISION message
BuSelected(state, selected, nextStepId) ==
        IF selected.kind = "raise"
        THEN [state |-> state, raised |-> selected.exc, opened |-> FALSE]
        ELSE IF selected.recs = << >>
        THEN [state |-> [state EXCEPT
                            !.status = "FAILED",
                            !.pending_step = None,
                            !.error = "No eligible business unit recommendations generated."],
              raised |-> "", opened |-> FALSE]
        ELSE
        LET recommendations == selected.recs
            preview == Preview(recommendations)
            next_step == _new_step(nextStepId, "sku_selector", 2,
                             [objective |-> "Select SKU proposals for approved business units.",
                              buRecommendations |-> preview])
        IN  [state |-> [state EXCEPT
                           !.draft = ("buRecommendations" :> recommendations) @@ @,
                           !.agent_messages = Append(@,
                               AgentMessage("bu_selector", "synergy_coordinator",
                                   "BU_SELECTION_DRAFT",
                                   <<"BU selector prepared draft recommendations.">>,
                                   [recommendations |-> preview])),
                           !.pending_step = next_step,
                           !.status = "PENDING_APPROVAL"],
             raised |-> "", opened |-> TRUE]

BuSelectorBranch(state, runtime, answer, nextStepId) ==
    BuSelected(state, SelectRecommendations(state, runtime, answer), nextStepId)

\* lines 576-586: the BU_PROPOSAL messages of recommendations[1..n]
ProposalMessages(recommendations, n) ==
    [i \in 1..n |->
        AgentMessage(ProposalAgentId(recommendations[i].businessUnitCode),
            "synergy_coordinator", "BU_PROPOSAL",
            recommendations[i].reasonSummary,
            [profile |-> get_business_unit_profile(recommendations[i].businessUnitCode)])]

\* lines 560-574
ComposeFinalResult(state, bu_recommendations, sku_rows) ==
    [summary |-> <<"Deep Agents completed BU and SKU delegation with human approvals.">>
                 \o (IF bu_recommendations # << >>
                     THEN <<"Selected BUs: ">>
                          \o [i \in 1..Len(bu_recommendations) |->
                                 bu_recommendations[i].businessUnitCode]
                     ELSE << >>),
     buRecommendations |-> bu_recommendations,
     skuProposals |-> sku_rows,
     agentMessages |-> state.agent_messages
                       \o << AgentMessage("sku_selector", "synergy_coordinator",
                                 "SKU_SELECTION_DRAFT",
                                 <<"SKU selector finalized proposal set.">>,
                                 [proposalCount |-> Len(sku_rows)]) >>]

\* what the data access does during the sku_selector stage: list_bu_skus raises
\* or not, and get_business_unit_profile raises at the profileFailsAt-th
\* recommendation (0: never)
DbOk == [skus |-> "ok", profileFailsAt |-> 0]

\* lines 538-599; state already holds the DELEGATION_DECISION message
SkuSelectorBranch(state, s, db, searchAnswer) ==
    LET bu_recommendations == DictGet(state.draft, "buRecommendations", << >>)
    IN  IF db.skus = "raises"
        THEN [state |-> state, raised |-> "Exception", opened |-> FALSE]
        ELSE
        LET sku_rows == _build_sku_proposals(state.lead_snapshot, bu_recommendations)
            draft == IF s.enable_market_signal_tool
                     THEN ("marketSignals" :> web_market_signal(s, searchAnswer)) @@ state.draft
                     ELSE state.draft
            final_result == ComposeFinalResult(state, bu_recommendations, sku_rows)
        IN  IF db.profileFailsAt # 0 /\ db.profileFailsAt <= Len(bu_recommendations)
            THEN [state |-> [state EXCEPT
                                !.draft = draft,
                                !.agent_messages = @ \o ProposalMessages(bu_recommendations,
                                                            db.profileFailsAt - 1)],
                  raised |-> "Exception", opened |-> FALSE]
            ELSE [state |-> [state EXCEPT
                                !.draft = draft,
                                !.agent_messages = @ \o ProposalMessages(bu_recommendations,
                                                            Len(bu_recommendations)),
                                !.status = "COMPLETED",
                                !.pending_step = None,
                                !.final_result = final_result],
                  raised |-> "", opened |-> FALSE]

\* lines 601-611
UnsupportedBranch(state, pending) ==
    [state |-> [state EXCEPT !.status = "FAILED",
                             !.pending_step = None,
                             !.error = UnsupportedSubagent(pending.subagentName)],
     raised |-> "", opened |-> FALSE]

\* AcceptedDecision without the test of line 457: a REJECT runs the stage
AcceptedDecision_IgnoresReject(state, decision, runtime, s, answer, db, searchAnswer, nextStepId) ==
    LET pending == state.pending_step
        logged == [state EXCEPT !.agent_messages = Append(@, DecisionMessage(pending, decision))]
    IN  IF pending.subagentName = "bu_selector"
        THEN BuSelectorBranch(logged, runtime, answer, nextStepId)
        ELSE IF pending.subagentName = "sku_selector"
        THEN SkuSelectorBranch(logged, s, db, searchAnswer)
        ELSE UnsupportedBranch(logged, pending)

\* lines 443-611: an accepted decision; [state, raised, opened]
AcceptedDecision(state, decision, runtime, s, answer, db, searchAnswer, nextStepId) ==
    LET pending == state.pending_step
        logged == [state EXCEPT !.agent_messages = Append(@, DecisionMessage(pending, decision))]
    IN  IF decision.decision = "REJECT"
        THEN [state |-> RejectBranch(logged, decision), raised |-> "", opened |-> FALSE]
        ELSE IF pending.subagentName = "bu_selector"
        THEN BuSelectorBranch(logged, runtime, answer, nextStepId)
        ELSE IF pending.subagentName = "sku_selector"
        THEN SkuSelectorBranch(logged, s, db, searchAnswer)
        ELSE UnsupportedBranch(logged, pending)

\* what an accepted decision leaves behind: result is [state, raised, opened]
CommitDecision(session_id, step_id, decision, pending, result) ==
    /\ SESSION_STORE' = StorePut(SESSION_STORE, session_id, result.state)
    /\ accepted' = [accepted EXCEPT ![session_id] =
           Append(@, [stepId |-> step_id,
                      subagentName |-> pending.subagentName,
                      decision |-> decision.decision])]
    /\ steps_created' =
           IF result.opened
           THEN [steps_created EXCEPT ![session_id] =
                    Append(@, [stepIndex |-> result.state.pending_step.stepIndex,
                               subagentName |-> result.state.pending_step.subagentName])]
           ELSE steps_created
    /\ response' = IF result.raised = ""
                   THEN Returned(result.state)
                   ELSE Raised(result.raised, "")

apply_step_decision(session_id, step_id, decision, answer, db, searchAnswer) ==
    LET state == StoreGet(SESSION_STORE, session_id)
    IN  IF DecisionGuard(state, step_id) # ""
        THEN /\ response' = Raised("ValueError", DecisionGuard(state, step_id))
             /\ UNCHANGED <<SESSION_STORE, steps_created, accepted>>
        ELSE CommitDecision(session_id, step_id, decision, state.pending_step,
                 AcceptedDecision(state, decision, DEEP_AGENT_RUNTIME, settings,
                                  answer, db, searchAnswer, uuid4(session_id)))

\* the accepted decisions of a session with a pending step that ended by
\* raising: every other one closed a step
RaisedCalls(state) ==
    Cardinality({i \in 1..Len(state.agent_messages) :
        state.agent_messages[i].messageType = "DELEGATION_DECISION"})
    - (state.pending_step.stepIndex - 1)

Decide(session_id, step_id, decision, answer, db, searchAnswer) ==
    /\ apply_step_decision(session_id, step_id, decision, answer, db, searchAnswer)
    \* the caps of the model: a step is opened while an id is left for it, and
    \* a raising call is not retried for ever
    /\ IF steps_created' # steps_created
       THEN Len(steps_created[session_id]) < MaxStepIds
       ELSE TRUE
    /\ IF response'.raised # "" /\ response'.detail = ""
       THEN RaisedCalls(StoreGet(SESSION_STORE, session_id)) < MaxRaises
       ELSE TRUE
    /\ UNCHANGED <<DEEP_AGENT_RUNTIME, settings, probe, calls>>

\* the collaborators an accepted APPROVE consults, and what each may do
Consults(session_id, step_id, decision, subagentName) ==
    LET state == StoreGet(SESSION_STORE, session_id)
    IN  /\ DecisionGuard(state, step_id) = ""
        /\ decision = "APPROVE"
        /\ state.pending_step.subagentName = subagentName

AnswersFor(session_id, step_id, decision) ==
    IF Consults(session_id, step_id, decision, "bu_selector") /\ DEEP_AGENT_RUNTIME = "runtime"
    THEN RuntimeAnswers
    ELSE {[raises |-> TRUE]}

DbOutcomesFor(session_id, step_id, decision) ==
    IF Consults(session_id, step_id, decision, "sku_selector")
    THEN {DbOk, [skus |-> "raises", profileFailsAt |-> 0]}
         \cup {[skus |-> "ok", profileFailsAt |-> k] : k \in 1..2}
    ELSE {DbOk}

SearchAnswersFor(session_id, step_id, decision) ==
    IF Consults(session_id, step_id, decision, "sku_selector")
       /\ settings.enable_market_signal_tool /\ settings.tavily_api_key # ""
    THEN SearchAnswers
    ELSE {"raises"}

----------------------------------------------------------------------------
(* graph.py: get_graph_session *)

\* get_graph_session with SESSION_STORE.setdefault in place of SESSION_STORE.get
get_graph_session_Creates(session_id) ==
    LET state == StoreGet(SESSION_STORE, session_id)
        made == StartFailedState(StartSessionRequest(session_id, "lead-unknown"),
                                 get_lead_snapshot("lead-unknown"), << >>)
    IN  /\ response' = IF state = NoSession THEN Returned(made) ELSE Returned(state)
        /\ SESSION_STORE' = IF state = NoSession
                            THEN StorePut(SESSION_STORE, session_id, made)
                            ELSE SESSION_STORE
        /\ UNCHANGED <<steps_created, accepted>>

get_graph_session(session_id) ==
    LET state == StoreGet(SESSION_STORE, session_id)
    IN  /\ response' = IF state = NoSession
                       THEN Raised("ValueError", "Session not found.")
                       ELSE Returned(state)
        /\ UNCHANGED <<SESSION_STORE, steps_created, accepted>>

Get(session_id) ==
    /\ get_graph_session(session_id)
    /\ UNCHANGED <<DEEP_AGENT_RUNTIME, settings, probe, calls>>

----------------------------------------------------------------------------
(* main.py: the process *)

\* what the process is started with: initialize_deep_agent leaves no runtime, a
\* runtime without invoke, or a runtime; load_settings reads the market-signal
\* flag and the search key
Environments ==
    { [runtime |-> "None",
       settings |-> [enable_market_signal_tool |-> FALSE, tavily_api_key |-> ""]],
      [runtime |-> "no_invoke",
       settings |-> [enable_market_signal_tool |-> TRUE, tavily_api_key |-> ""]],
      [runtime |-> "runtime",
       settings |-> [enable_market_signal_tool |-> TRUE, tavily_api_key |-> "tvly-key"]] }

\* the step ids callers send: the ids of the steps made so far, and one no
\* step has
StepIds ==
    UNION {{<<sid, n>> : n \in 0..Len(steps_created[sid])} : sid \in SessionIds}

Init ==
    /\ SESSION_STORE = [sid \in {} |-> NoSession]
    /\ \E env \in Environments :
          /\ DEEP_AGENT_RUNTIME = env.runtime
          /\ settings = env.settings
    /\ steps_created = [sid \in SessionIds |-> << >>]
    /\ accepted = [sid \in SessionIds |-> << >>]
    /\ response = Raised("", "")
    /\ calls = [sid \in SessionIds |-> Idle]
    /\ probe = NoProbe

Next ==
    \/ \E sessionId \in SessionIds, leadId \in LeadIds, business_units \in Catalogs :
          Start(sessionId, leadId, business_units)
    \/ \E session_id \in AskedIds, step_id \in StepIds, d \in Decisions :
       \E reviewerId \in ReviewerIds, reason \in Reasons(d) :
       \E answer \in AnswersFor(session_id, step_id, d) :
       \E db \in DbOutcomesFor(session_id, step_id, d) :
       \E searchAnswer \in SearchAnswersFor(session_id, step_id, d) :
          Decide(session_id, step_id, StepDecisionRequest(d, reviewerId, reason),
                 answer, db, searchAnswer)
    \/ \E session_id \in AskedIds : Get(session_id)

Spec == Init /\ [][Next]_vars

----------------------------------------------------------------------------
(* Properties *)

Stored == DOMAIN SESSION_STORE
TerminalStatuses == {"COMPLETED", "REJECTED", "FAILED"}
HasPendingStep(state) == state.pending_step # None
NotFoundDetails == {"Session not found.", "Pending delegation step not found."}

\* a Decide call with some reviewer, reason and collaborator behaviour
DecideCall(session_id, step_id, d) ==
    \E reviewerId \in ReviewerIds, reason \in Reasons(d) :
    \E answer \in AnswersFor(session_id, step_id, d) :
    \E db \in DbOutcomesFor(session_id, step_id, d) :
    \E searchAnswer \in SearchAnswersFor(session_id, step_id, d) :
        Decide(session_id, step_id, StepDecisionRequest(d, reviewerId, reason),
               answer, db, searchAnswer)

\* the decisions accepted for the stored session of sid hold an APPROVE of subagentName
ApprovedAt(sid, subagentName) ==
    {i \in 1..Len(accepted[sid]) :
        /\ accepted[sid][i].subagentName = subagentName
        /\ accepted[sid][i].decision = "APPROVE"}

\* C1: in every reachable state, every stored session has a pending step iff
\* its status is PENDING_APPROVAL (none for COMPLETED, REJECTED, FAILED).
C1_PendingIffPendingApproval ==
    \A sid \in Stored :
        HasPendingStep(SESSION_STORE[sid]) <=> SESSION_STORE[sid].status = "PENDING_APPROVAL"

C1_Witness ==
    \E sid \in Stored :
        /\ SESSION_STORE[sid].status = "REJECTED"
        /\ ~HasPendingStep(SESSION_STORE[sid])
        /\ Len(accepted[sid]) = 2

\* C2: a Decide on an unknown session, on a session without pending step, or
\* with a step id that is not the pending step's, raises the not-found error
\* and leaves the whole session store as it was.
C2_Refused(session_id, step_id) ==
    IF session_id \notin Stored THEN TRUE
    ELSE IF ~HasPendingStep(SESSION_STORE[session_id]) THEN TRUE
    ELSE SESSION_STORE[session_id].pending_step.stepId # step_id

C2_NotFoundLeavesStore ==
    [][\A session_id \in AskedIds, step_id \in StepIds, d \in Decisions :
          (C2_Refused(session_id, step_id) /\ DecideCall(session_id, step_id, d))
          => /\ response'.raised = "ValueError"
             /\ response'.detail \in NotFoundDetails
             /\ SESSION_STORE' = SESSION_STORE]_vars

C2_Witness ==
    /\ response.raised = "ValueError"
    /\ response.detail = "Pending delegation step not found."
    /\ \E sid \in Stored : SESSION_STORE[sid].status = "PENDING_APPROVAL"

\* C3: a session holds buRecommendations in its draft or a sku_selector
\* pending step only after an APPROVE was accepted for its bu_selector step,
\* and is COMPLETED with a final result only after an APPROVE was accepted for
\* the bu_selector step and then one for the sku_selector step.
C3_NoAdvanceWithoutApprove ==
    \A sid \in Stored :
        LET state == SESSION_STORE[sid]
        IN  /\ ("buRecommendations" \in DOMAIN state.draft
                \/ (HasPendingStep(state) /\ state.pending_step.subagentName = "sku_selector"))
               => ApprovedAt(sid, "bu_selector") # {}
            /\ (state.status = "COMPLETED" \/ state.final_result # None)
               => \E i \in ApprovedAt(sid, "bu_selector") :
                  \E j \in ApprovedAt(sid, "sku_selector") : i < j

C3_Witness ==
    \E sid \in Stored :
        /\ SESSION_STORE[sid].status = "COMPLETED"
        /\ SESSION_STORE[sid].final_result # None
        /\ "buRecommendations" \in DOMAIN SESSION_STORE[sid].draft

\* the decision sent for step_id would pass the guards of session_id
WouldAccept(session_id, step_id) == ~C2_Refused(session_id, step_id)

\* a Decide call with the given request, whatever the collaborators do
DecideRequest(session_id, step_id, d, reviewerId, reason) ==
    \E answer \in AnswersFor(session_id, step_id, d) :
    \E db \in DbOutcomesFor(session_id, step_id, d) :
    \E searchAnswer \in SearchAnswersFor(session_id, step_id, d) :
        Decide(session_id, step_id, StepDecisionRequest(d, reviewerId, reason),
               answer, db, searchAnswer)

\* an APPROVE call during which the runtime does answer and the data access db
ApproveCall(session_id, step_id, answer, db) ==
    \E reviewerId \in ReviewerIds, reason \in Reasons("APPROVE") :
    \E searchAnswer \in SearchAnswersFor(session_id, step_id, "APPROVE") :
        Decide(session_id, step_id, StepDecisionRequest("APPROVE", reviewerId, reason),
               answer, db, searchAnswer)

\* C4: Start with an existing lead and a non-empty catalog stores a session
\* pending on bu_selector; the APPROVE of that step leaves it pending on
\* sku_selector; the APPROVE of that step leaves it COMPLETED with a final
\* result whose buRecommendations are not empty (the data access answering).
C4_ApproveSequence ==
    [][\A sid \in SessionIds :
        /\ \A leadId \in LeadIds, business_units \in Catalogs :
              (/\ get_lead_snapshot(leadId).lead # None
               /\ business_units # << >>
               /\ Start(sid, leadId, business_units))
              => /\ SESSION_STORE'[sid].status = "PENDING_APPROVAL"
                 /\ SESSION_STORE'[sid].pending_step.subagentName = "bu_selector"
                 /\ response'.envelope.pendingStep = SESSION_STORE'[sid].pending_step
        /\ \A step_id \in StepIds :
           \A answer \in AnswersFor(sid, step_id, "APPROVE") :
              (/\ WouldAccept(sid, step_id)
               /\ SESSION_STORE[sid].business_units # << >>
               /\ ApproveCall(sid, step_id, answer, DbOk))
              => IF SESSION_STORE[sid].pending_step.subagentName = "bu_selector"
                 THEN /\ response'.raised = ""
                      /\ SESSION_STORE'[sid].status = "PENDING_APPROVAL"
                      /\ SESSION_STORE'[sid].pending_step.subagentName = "sku_selector"
                      /\ response'.envelope.pendingStep = SESSION_STORE'[sid].pending_step
                 ELSE /\ response'.raised = ""
                      /\ SESSION_STORE'[sid].status = "COMPLETED"
                      /\ SESSION_STORE'[sid].final_result # None
                      /\ SESSION_STORE'[sid].final_result.buRecommendations # << >>]_vars

\* the pending steps a session id may have had, in order
StepOrder ==
    << [stepIndex |-> 1, subagentName |-> "bu_selector"],
       [stepIndex |-> 2, subagentName |-> "sku_selector"] >>

\* C5: the pending steps ever made under one session id are step 1 for
\* bu_selector, then possibly step 2 for sku_selector, and nothing else.
C5_StepOrder ==
    \A sid \in SessionIds :
        /\ Len(steps_created[sid]) <= Len(StepOrder)
        /\ steps_created[sid] = SubSeq(StepOrder, 1, Len(steps_created[sid]))

\* C6: an accepted REJECT, at either stage, leaves the session REJECTED with
\* no pending step, no final result, and as error the reason given when it is
\* not empty, else the default text naming the reviewer.
C6_RejectOutcome ==
    [][\A sid \in SessionIds, step_id \in StepIds :
       \A reviewerId \in ReviewerIds, reason \in Reasons("REJECT") :
          (WouldAccept(sid, step_id)
           /\ DecideRequest(sid, step_id, "REJECT", reviewerId, reason))
          => /\ response'.raised = ""
             /\ SESSION_STORE'[sid].status = "REJECTED"
             /\ SESSION_STORE'[sid].pending_step = None
             /\ SESSION_STORE'[sid].final_result = None
             /\ SESSION_STORE'[sid].error =
                   IF reason \in {"not relevant"}
                   THEN reason
                   ELSE "Delegation rejected by synergy-1."]_vars

C6_Witness ==
    \E sid \in Stored :
        /\ SESSION_STORE[sid].status = "REJECTED"
        /\ SESSION_STORE[sid].error = "Delegation rejected by synergy-1."
        /\ SESSION_STORE[sid].final_result = None
        /\ Len(accepted[sid]) = 2
        /\ accepted[sid][2].subagentName = "sku_selector"
        /\ accepted[sid][2].decision = "REJECT"

\* C7: once the session of an id is COMPLETED, REJECTED or FAILED, every
\* Decide on the id is refused with not-found, and the session's status, audit
\* log, draft, final result and error are the same after every step.
C7_TerminalAbsorbing ==
    [][\A sid \in Stored :
          SESSION_STORE[sid].status \in TerminalStatuses
          => /\ \A step_id \in StepIds, d \in Decisions :
                   DecideCall(sid, step_id, d)
                   => /\ response'.raised = "ValueError"
                      /\ response'.detail \in NotFoundDetails
             /\ sid \in DOMAIN SESSION_STORE'
             /\ SESSION_STORE'[sid].status = SESSION_STORE[sid].status
             /\ SESSION_STORE'[sid].agent_messages = SESSION_STORE[sid].agent_messages
             /\ SESSION_STORE'[sid].draft = SESSION_STORE[sid].draft
             /\ SESSION_STORE'[sid].final_result = SESSION_STORE[sid].final_result
             /\ SESSION_STORE'[sid].error = SESSION_STORE[sid].error]_vars

\* C8: the recommendations a session stores at the bu_selector stage are at
\* most constraints.maxBusinessUnits, the first with role PRIMARY and every
\* other one with role CROSS_SELL.
C8_CapAndRoles ==
    \A sid \in Stored :
        LET draft == SESSION_STORE[sid].draft
        IN  "buRecommendations" \in DOMAIN draft
            => /\ Len(draft["buRecommendations"]) <= draft["constraints"].maxBusinessUnits
               /\ \A i \in 1..Len(draft["buRecommendations"]) :
                     draft["buRecommendations"][i].role
                         = IF i = 1 THEN "PRIMARY" ELSE "CROSS_SELL"

\* a candidate the model strategy cannot use: no mapping, no code, or a score
\* or confidence that is no number
C9_Unusable(item) ==
    IF item.t # "dict" THEN TRUE
    ELSE \/ Strip(ToStr(DictGet(item.d, "businessUnitCode", PyStr("")))) = ""
         \/ ~ToFloat(DictGet(item.d, "finalScore", PyNum(5000))).ok
         \/ ~ToFloat(DictGet(item.d, "confidence", PyNum(5000))).ok

\* the runtime failed: it raised, or returned no list of candidates, or a list
\* without one usable candidate
C9_RuntimeFailed(answer) ==
    IF answer.raises THEN TRUE
    ELSE IF ModelCandidates(answer.raw).t # "list" THEN TRUE
    ELSE \A i \in 1..Len(ModelCandidates(answer.raw).items) :
             C9_Unusable(ModelCandidates(answer.raw).items[i])

\* C9: when the runtime fails during the APPROVE of the bu_selector step, the
\* call does not raise and the session holds the heuristic recommendations
\* (or is FAILED when the heuristic has none).
C9_FallsBackToHeuristic ==
    [][\A sid \in SessionIds, step_id \in StepIds :
       \A answer \in AnswersFor(sid, step_id, "APPROVE"), db \in {DbOk} :
          (/\ WouldAccept(sid, step_id)
           /\ SESSION_STORE[sid].pending_step.subagentName = "bu_selector"
           /\ C9_RuntimeFailed(answer)
           /\ ApproveCall(sid, step_id, answer, db))
          => LET heuristic == _heuristic_bu_selection(SESSION_STORE[sid].lead_snapshot,
                                  SESSION_STORE[sid].business_units,
                                  SESSION_STORE[sid].draft["constraints"])
             IN  /\ response'.raised = ""
                 /\ IF heuristic = << >>
                    THEN SESSION_STORE'[sid].status = "FAILED"
                    ELSE /\ "buRecommendations" \in DOMAIN SESSION_STORE'[sid].draft
                         /\ SESSION_STORE'[sid].draft["buRecommendations"] = heuristic]_vars

\* a occurs in b, in order
RECURSIVE IsSubsequence(_, _)
IsSubsequence(a, b) ==
    IF a = << >> THEN TRUE
    ELSE IF b = << >> THEN FALSE
    ELSE IF Head(a) = Head(b) THEN IsSubsequence(Tail(a), Tail(b))
    ELSE IsSubsequence(a, Tail(b))

\* C10: the final result of a COMPLETED session holds every message of the
\* session's audit log, in order, and ends with the SKU_SELECTION_DRAFT message.
C10_FinalTrailComplete ==
    \A sid \in Stored :
        LET state == SESSION_STORE[sid]
        IN  state.status = "COMPLETED"
            => LET trail == state.final_result.agentMessages
               IN  /\ trail # << >>
                   /\ trail[Len(trail)].messageType = "SKU_SELECTION_DRAFT"
                   /\ IsSubsequence(state.agent_messages,
                                    SubSeq(trail, 1, Len(trail) - 1))

\* the score _build_sku_proposals ranks the SKU row by
SkuScore(sid, row) ==
    _score_sku_name(row.text, _normalize_fact_map(SESSION_STORE[sid].lead_snapshot.facts))

\* row j of the unit's SKU catalog goes before row i: higher score, or the
\* same score and earlier in the catalog
RanksBefore(sid, skus, j, i) ==
    \/ SkuScore(sid, skus[j]) > SkuScore(sid, skus[i])
    \/ SkuScore(sid, skus[j]) = SkuScore(sid, skus[i]) /\ j < i

\* C11: in a COMPLETED session the proposals of each approved code are at
\* most 3, ranked 1..k, the k best SKUs of the unit's catalog (ties in catalog
\* order), with confidence not increasing along the ranks.
C11_TopSkusPerUnit ==
    \A sid \in Stored :
        SESSION_STORE[sid].status = "COMPLETED"
        => LET final == SESSION_STORE[sid].final_result
           IN  \A b \in 1..Len(final.buRecommendations) :
               LET code == final.buRecommendations[b].businessUnitCode
                   OfCode(p) == p.businessUnitCode = code
                   props == SelectSeq(final.skuProposals, OfCode)
                   skus == list_bu_skus(code)
               IN  /\ Len(props) <= 3
                   /\ Len(props) = Min(3, Len(skus))
                   /\ \A r \in 1..Len(props) :
                         /\ props[r].rank = r
                         /\ \E i \in 1..Len(skus) :
                               /\ skus[i].id = props[r].buSkuId
                               /\ props[r].confidence = SkuScore(sid, skus[i])
                               /\ Cardinality({j \in 1..Len(skus) :
                                      RanksBefore(sid, skus, j, i)}) = r - 1
                   /\ \A r \in 1..(Len(props) - 1) :
                         props[r].confidence >= props[r + 1].confidence

\* C12: Start with a lead the lookup does not find stores and returns a FAILED
\* session with error "Lead snapshot not found.", no pending step, an empty
\* audit log and an empty draft, and opens no step; every Decide on that
\* session is refused.
C12_LeadNotFound ==
    [][\A sid \in SessionIds :
        /\ \A leadId \in LeadIds, business_units \in Catalogs :
              (get_lead_snapshot(leadId).lead = None /\ Start(sid, leadId, business_units))
              => /\ sid \in DOMAIN SESSION_STORE'
                 /\ SESSION_STORE'[sid].status = "FAILED"
                 /\ SESSION_STORE'[sid].error = "Lead snapshot not found."
                 /\ SESSION_STORE'[sid].pending_step = None
                 /\ SESSION_STORE'[sid].agent_messages = << >>
                 /\ SESSION_STORE'[sid].draft = << >>
                 /\ SESSION_STORE'[sid].final_result = None
                 /\ steps_created' = steps_created
                 /\ response'.raised = ""
                 /\ response'.envelope.status = "FAILED"
                 /\ response'.envelope.error = "Lead snapshot not found."
                 /\ response'.envelope.pendingStep = None
        /\ \A step_id \in StepIds, d \in Decisions :
              (/\ sid \in Stored
               /\ SESSION_STORE[sid].error = "Lead snapshot not found."
               /\ DecideCall(sid, step_id, d))
              => /\ response'.raised = "ValueError"
                 /\ response'.detail = "Pending delegation step not found."
                 /\ SESSION_STORE' = SESSION_STORE]_vars

C12_Witness ==
    \E sid \in Stored :
        /\ SESSION_STORE[sid].status = "FAILED"
        /\ SESSION_STORE[sid].error = "Lead snapshot not found."
        /\ SESSION_STORE[sid].draft = << >>
        /\ response.raised = "ValueError"
        /\ response.detail = "Pending delegation step not found."

\* C13: the session stored under an id stays stored, and changes only in a
\* step that is an accepted Decide on the id; no later Start replaces it.
C13_OneSessionPerId ==
    [][\A sid \in Stored :
          /\ sid \in DOMAIN SESSION_STORE'
          /\ \/ SESSION_STORE'[sid] = SESSION_STORE[sid]
             \/ \E step_id \in StepIds, d \in Decisions :
                   WouldAccept(sid, step_id) /\ DecideCall(sid, step_id, d)]_vars

----------------------------------------------------------------------------
(* main.py: two handler threads, one per session id.  The handlers are plain *)
(* def functions, which the server runs on worker threads: the steps of a    *)
(* call on one session id interleave with the steps of a call on the other.  *)
(* A call on an id is sent when the previous call on that id has returned.   *)

PairIds == {"session-1", "session-2"}

\* Start calls per session id that open a step, in the two-thread runs
MaxThreadStarts == 1

\* the state start_graph_session builds before it stores it (lines 332-387)
BuiltState(request, business_units) ==
    IF get_lead_snapshot(request.leadId).lead = None
    THEN StartFailedState(request, get_lead_snapshot(request.leadId), business_units)
    ELSE StartPendingState(request, get_lead_snapshot(request.leadId), business_units,
                           uuid4(request.sessionId))

\* lines 332-387: the lookups, and the state built from them
StartBuild(sid, leadId, business_units) ==
    /\ calls[sid] = Idle
    /\ Len(steps_created[sid]) < MaxThreadStarts
    /\ LET state == BuiltState(StartSessionRequest(sid, leadId), business_units)
       IN  /\ IF state.pending_step # None
              THEN steps_created' = [steps_created EXCEPT ![sid] =
                          Append(@, [stepIndex |-> state.pending_step.stepIndex,
                                     subagentName |-> state.pending_step.subagentName])]
              ELSE UNCHANGED steps_created
           /\ calls' = [calls EXCEPT ![sid] = [pc |-> "start_store", state |-> state]]
    /\ UNCHANGED <<SESSION_STORE, DEEP_AGENT_RUNTIME, settings, probe, accepted, response>>

\* line 389 (344): SESSION_STORE[request.sessionId] = state, and the return
StartStore(sid) ==
    /\ calls[sid].pc = "start_store"
    /\ SESSION_STORE' = StorePut(SESSION_STORE, sid, calls[sid].state)
    /\ accepted' = [accepted EXCEPT ![sid] = << >>]
    /\ response' = Returned(calls[sid].state)
    /\ calls' = [calls EXCEPT ![sid] = Idle]
    /\ UNCHANGED <<DEEP_AGENT_RUNTIME, settings, probe, steps_created>>

\* lines 412-430: the lookup and the guards; the call goes on with the state
\* object it found
DecideLookup(sid, step_id, decision) ==
    /\ calls[sid] = Idle
    /\ LET state == StoreGet(SESSION_STORE, sid)
       IN  IF DecisionGuard(state, step_id) # ""
           THEN /\ response' = Raised("ValueError", DecisionGuard(state, step_id))
                /\ UNCHANGED calls
           ELSE /\ calls' = [calls EXCEPT ![sid] =
                       [pc |-> "decide_log", step_id |-> step_id, decision |-> decision,
                        pending |-> state.pending_step, before |-> state]]
                /\ UNCHANGED response
    /\ UNCHANGED <<SESSION_STORE, DEEP_AGENT_RUNTIME, settings, probe, steps_created, accepted>>

\* lines 443-455: state.agent_messages.append(...)
DecideLog(sid) ==
    /\ calls[sid].pc = "decide_log"
    /\ SESSION_STORE' = [SESSION_STORE EXCEPT ![sid].agent_messages =
           Append(@, DecisionMessage(calls[sid].pending, calls[sid].decision))]
    /\ calls' = [calls EXCEPT ![sid].pc = "decide_stage"]
    /\ UNCHANGED <<DEEP_AGENT_RUNTIME, settings, probe, steps_created, accepted, response>>

\* lines 457-611 on the state object that holds the DELEGATION_DECISION message
StageResult(logged, pending, decision, runtime, s, answer, db, searchAnswer, nextStepId) ==
    IF decision.decision = "REJECT"
    THEN [state |-> RejectBranch(logged, decision), raised |-> "", opened |-> FALSE]
    ELSE IF pending.subagentName = "bu_selector"
    THEN BuSelectorBranch(logged, runtime, answer, nextStepId)
    ELSE IF pending.subagentName = "sku_selector"
    THEN SkuSelectorBranch(logged, s, db, searchAnswer)
    ELSE UnsupportedBranch(logged, pending)

\* lines 457-611: the stage, its writes to the state object, and the return
DecideStage(sid, answer, db, searchAnswer) ==
    /\ calls[sid].pc = "decide_stage"
    /\ IF calls[sid].decision.decision = "APPROVE"
          /\ calls[sid].pending.subagentName = "bu_selector"
       THEN Len(steps_created[sid]) < MaxStepIds
       ELSE TRUE
    /\ CommitDecision(sid, calls[sid].step_id, calls[sid].decision, calls[sid].pending,
           StageResult(SESSION_STORE[sid], calls[sid].pending, calls[sid].decision,
                       DEEP_AGENT_RUNTIME, settings, answer, db, searchAnswer, uuid4(sid)))
    /\ calls' = [calls EXCEPT ![sid] = Idle]
    /\ UNCHANGED <<DEEP_AGENT_RUNTIME, settings, probe>>

\* what the collaborators may do during the stage of the running call: the
\* runtime raises or returns the well-formed answer
StageAnswers(sid) ==
    IF calls[sid].pc = "decide_stage" /\ DEEP_AGENT_RUNTIME = "runtime"
    THEN {[raises |-> TRUE], [raises |-> FALSE, raw |-> PyStr(GoodJson)]}
    ELSE {[raises |-> TRUE]}

StageSearchAnswers(sid) ==
    IF calls[sid].pc = "decide_stage"
    THEN SearchAnswersFor(sid, calls[sid].step_id, calls[sid].decision.decision)
         \ {"no results"}
    ELSE {"raises"}

\* the two-thread runs start without a runtime, or with one
ThreadEnvironments == {env \in Environments : env.runtime \in {"None", "runtime"}}

InitThreads ==
    /\ SESSION_STORE = [sid \in {} |-> NoSession]
    /\ \E env \in ThreadEnvironments :
          /\ DEEP_AGENT_RUNTIME = env.runtime
          /\ settings = env.settings
    /\ steps_created = [sid \in PairIds |-> << >>]
    /\ accepted = [sid \in PairIds |-> << >>]
    /\ response = Raised("", "")
    /\ calls = [sid \in PairIds |-> Idle]
    /\ probe = NoProbe

NextThreads ==
    \E sid \in PairIds :
       \/ \E leadId \in LeadIds, business_units \in Catalogs :
             StartBuild(sid, leadId, business_units)
       \/ StartStore(sid)
       \/ \E step_id \in {<<sid, n>> : n \in 0..Len(steps_created[sid])}, d \in Decisions :
          \E reviewerId \in ReviewerIds, reason \in Reasons(d) :
             DecideLookup(sid, step_id, StepDecisionRequest(d, reviewerId, reason))
       \/ DecideLog(sid)
       \/ \E answer \in StageAnswers(sid), searchAnswer \in StageSearchAnswers(sid) :
             DecideStage(sid, answer, DbOk, searchAnswer)

SpecThreads == InitThreads /\ [][NextThreads]_vars

\* C14: while calls on two session ids interleave, a step of a call on one id
\* changes nothing of the session stored under the other id, and a call that
\* returns leaves its session as the same call leaves it when it runs alone
\* on the state it found.
C14_SessionsIndependent ==
    [][\A a \in PairIds :
        /\ \A b \in PairIds \ {a} :
              calls'[a] # calls[a]
              => /\ StoreGet(SESSION_STORE', b) = StoreGet(SESSION_STORE, b)
                 /\ steps_created'[b] = steps_created[b]
        /\ (calls[a].pc = "start_store" /\ calls'[a] = Idle)
           => SESSION_STORE'[a] = calls[a].state
        /\ (calls[a].pc = "decide_stage" /\ calls'[a] = Idle)
           => \E answer \in StageAnswers(a), searchAnswer \in StageSearchAnswers(a) :
                 SESSION_STORE'[a] =
                     AcceptedDecision(calls[a].before, calls[a].decision,
                                      DEEP_AGENT_RUNTIME, settings, answer, DbOk,
                                      searchAnswer, uuid4(a)).state]_vars

C14_Witness ==
    /\ calls["session-1"].pc = "decide_stage"
    /\ calls["session-1"].pending.subagentName = "sku_selector"
    /\ calls["session-2"].pc = "decide_stage"
    /\ calls["session-2"].pending.subagentName = "bu_selector"
    /\ SESSION_STORE["session-1"].lead_snapshot = SESSION_STORE["session-2"].lead_snapshot

----------------------------------------------------------------------------
(* graph.py: the scoring functions called directly, on every code, SKU text  *)
(* and fact mapping of the sets below                                        *)

BuCodes == {"GCAST", "SAG", "MAKNA", "STARKEN_AAC", "STARKEN_DRYMIX", "OTHER_BU"}

SkuTexts ==
    {"SAG-01 ceiling works", "SAG-02 interior fit out", "SAG-03 partition panel",
     "SAG-04 skim coat render", "AAC-01 aac block", "GC-01 precast drain", "GC-02 kerb",
     "MIX-01 aac skim render precast interior fit", "MIX-02 panel drymix manhole"}

\* a fact mapping; "-" leaves the key out
FactMap(project_type, development_type, project_stage) ==
    (IF project_type = "-" THEN << >> ELSE "project_type" :> project_type)
    @@ (IF development_type = "-" THEN << >> ELSE "development_type" :> development_type)
    @@ (IF project_stage = "-" THEN << >> ELSE "project_stage" :> project_stage)

FactMaps ==
    {FactMap(pt, dt, ps) :
        pt \in {"-", "Infrastructure", "infrastructure", "residential", "commercial", "mixed"},
        dt \in {"-", "fit_out", "refurbishment", "new_build"},
        ps \in {"-", "tender", "construction", "concept"}}

ScoreBusinessUnit(code, facts) ==
    /\ probe = NoProbe
    /\ probe' = [fn |-> "_score_business_unit", code |-> code, facts |-> facts,
                 score |-> _score_business_unit(code, facts).score,
                 reason |-> _score_business_unit(code, facts).reason]
    /\ UNCHANGED <<SESSION_STORE, DEEP_AGENT_RUNTIME, settings, steps_created, accepted,
                   response, calls>>

ScoreSkuName(name, facts) ==
    /\ probe = NoProbe
    /\ probe' = [fn |-> "_score_sku_name", name |-> name, facts |-> facts,
                 score |-> _score_sku_name(name, facts)]
    /\ UNCHANGED <<SESSION_STORE, DEEP_AGENT_RUNTIME, settings, steps_created, accepted,
                   response, calls>>

NextScoring ==
    \/ \E code \in BuCodes, facts \in FactMaps : ScoreBusinessUnit(code, facts)
    \/ \E name \in SkuTexts, facts \in FactMaps : ScoreSkuName(name, facts)

SpecScoring == Init /\ [][NextScoring]_vars

\* the clamp the scores are expected to have
ClampedAt98(x) == IF x > 9800 THEN 9800 ELSE x

\* C15: each score is the base value plus the increments of the matching
\* rules, clamped at 0.98, so it lies in 0..0.98; the result is the value of
\* the function at the arguments of the call.
C15_ScoresClamped ==
    /\ probe.fn = "_score_business_unit"
       => /\ probe.score \in 0..9800
          /\ probe.score \in {ClampedAt98(3600 + inc) : inc \in {0, 3700, 3300, 2500, 2700, 2300}}
          /\ probe.score = _score_business_unit(probe.code, probe.facts).score
          /\ probe.reason = _score_business_unit(probe.code, probe.facts).reason
          /\ probe.reason # << >>
    /\ probe.fn = "_score_sku_name"
       => /\ probe.score \in 0..9800
          /\ probe.score \in {ClampedAt98(4200 + 2000 * a + 1800 * b + 1200 * c) :
                                 a \in 0..3, b \in 0..1, c \in 0..2}
          /\ probe.score = _score_sku_name(probe.name, probe.facts)

C15_Witness ==
    /\ probe.fn = "_score_sku_name"
    /\ probe.name = "MIX-01 aac skim render precast interior fit"
    /\ "development_type" \in DOMAIN probe.facts
    /\ probe.facts["development_type"] = "fit_out"
    /\ probe.score = 9800

\* C16: an accepted APPROVE of the bu_selector step leaves the session FAILED
\* with error "No eligible business unit recommendations generated." and no
\* pending step exactly when the model strategy has no result and the catalog
\* captured at Start is empty (the heuristic has none only then); in that
\* case the draft gets no buRecommendations, the audit log no
\* BU_SELECTION_DRAFT message, and no step is opened.
C16_NoRecommendationFails ==
    [][\A sid \in SessionIds, step_id \in StepIds :
       \A answer \in AnswersFor(sid, step_id, "APPROVE") :
          (/\ WouldAccept(sid, step_id)
           /\ SESSION_STORE[sid].pending_step.subagentName = "bu_selector"
           /\ ApproveCall(sid, step_id, answer, DbOk))
          => LET state == SESSION_STORE[sid]
                 after == SESSION_STORE'[sid]
                 heuristic == _heuristic_bu_selection(state.lead_snapshot,
                                  state.business_units, state.draft["constraints"])
                 nothing == C9_RuntimeFailed(answer) /\ state.business_units = << >>
             IN  /\ (heuristic = << >>) <=> (state.business_units = << >>)
                 /\ nothing
                    <=> /\ after.status = "FAILED"
                        /\ after.error = "No eligible business unit recommendations generated."
                        /\ after.pending_step = None
                 /\ nothing
                    => /\ "buRecommendations" \notin DOMAIN after.draft
                       /\ \A i \in 1..Len(after.agent_messages) :
                             after.agent_messages[i].messageType # "BU_SELECTION_DRAFT"
                       /\ steps_created' = steps_created]_vars

C18_GetReadsOnly ==
    [][\A session_id \in AskedIds :
          Get(session_id)
          => /\ SESSION_STORE' = SESSION_STORE
             /\ IF session_id \in Stored
                THEN /\ response'.raised = ""
                     /\ response'.envelope.sessionId = session_id
                     /\ response'.envelope.status = SESSION_STORE[session_id].status
                     /\ response'.envelope.pendingStep = SESSION_STORE[session_id].pending_step
                     /\ response'.envelope.agentMessages = SESSION_STORE[session_id].agent_messages
                     /\ response'.envelope.draft = SESSION_STORE[session_id].draft
                     /\ response'.envelope.finalResult = SESSION_STORE[session_id].final_result
                     /\ response'.envelope.error = SESSION_STORE[session_id].error
                ELSE /\ response'.raised = "ValueError"
                     /\ response'.detail = "Session not found."
                     /\ session_id \notin DOMAIN SESSION_STORE']_vars

\* the envelope of a session whose bu_selector approval raised: only Get
\* returns it
C18_Witness ==
    /\ response.raised = ""
    /\ response.envelope # None
    /\ response.envelope.status = "PENDING_APPROVAL"
    /\ response.envelope.pendingStep.subagentName = "bu_selector"
    /\ Len(response.envelope.agentMessages) = 2
    /\ response.envelope.agentMessages[2].messageType = "DELEGATION_DECISION"

\* a is a prefix of b
IsPrefix(a, b) == Len(a) <= Len(b) /\ a = SubSeq(b, 1, Len(a))

\* C19: every Decide call on a stored session leaves an audit log that starts
\* with the log it found; a Start that finds the lead leaves a log of exactly
\* one DELEGATION_REQUEST from synergy_coordinator to bu_selector that refers
\* to the id of the pending step.
C19_AuditLogAppendOnly ==
    [][\A sid \in SessionIds :
        /\ \A step_id \in StepIds, d \in Decisions :
              IF sid \in Stored
              THEN IF /\ sid \in DOMAIN SESSION_STORE'
                      /\ IsPrefix(SESSION_STORE[sid].agent_messages,
                                  SESSION_STORE'[sid].agent_messages)
                   THEN TRUE
                   ELSE ~DecideCall(sid, step_id, d)
              ELSE TRUE
        /\ \A leadId \in LeadIds, business_units \in Catalogs :
              (get_lead_snapshot(leadId).lead # None /\ Start(sid, leadId, business_units))
              => LET log == SESSION_STORE'[sid].agent_messages
                 IN  /\ Len(log) = 1
                     /\ log[1].messageType = "DELEGATION_REQUEST"
                     /\ log[1].agentId = "synergy_coordinator"
                     /\ log[1].recipientId = "bu_selector"
                     /\ log[1].evidenceRefs.stepId = SESSION_STORE'[sid].pending_step.stepId
                     /\ response'.envelope.agentMessages = log]_vars

C19_Witness ==
    \E sid \in Stored :
        /\ SESSION_STORE[sid].status = "COMPLETED"
        /\ Len(SESSION_STORE[sid].agent_messages) >= 5
        /\ SESSION_STORE[sid].agent_messages[1].messageType = "DELEGATION_REQUEST"
        /\ SESSION_STORE[sid].agent_messages[2].messageType = "DELEGATION_DECISION"

\* the positions of the DELEGATION_DECISION messages for step_id in log
DecisionsFor(log, step_id) ==
    {i \in 1..Len(log) :
        /\ log[i].messageType = "DELEGATION_DECISION"
        /\ log[i].evidenceRefs.stepId = step_id}

\* C20: a session's audit log holds at most one DELEGATION_DECISION message
\* per step id, placed before the messages of the stage it approved, and no
\* step id is accepted by Decide twice.
C20_DecidedOnce ==
    \A sid \in Stored :
        LET log == SESSION_STORE[sid].agent_messages
        IN  /\ \A step_id \in StepIds : Cardinality(DecisionsFor(log, step_id)) <= 1
            /\ \A i, j \in 1..Len(accepted[sid]) :
                  accepted[sid][i].stepId = accepted[sid][j].stepId => i = j
            /\ \A i \in 1..Len(accepted[sid]) :
                  Cardinality(DecisionsFor(log, accepted[sid][i].stepId)) = 1
            /\ \A k \in 1..Len(log) :
                  /\ log[k].messageType = "BU_SELECTION_DRAFT"
                     => \E i \in 1..(k - 1) : log[i].messageType = "DELEGATION_DECISION"
                  /\ log[k].messageType = "BU_PROPOSAL"
                     => Cardinality({i \in 1..(k - 1) :
                            log[i].messageType = "DELEGATION_DECISION"}) >= 2

\* the subagents apply_step_decision has a stage for (lines 472, 538)
KnownSubagents == {"bu_selector", "sku_selector"}

\* the error texts of the branch of lines 601-611
UnsupportedErrors ==
    {UnsupportedSubagent(n) : n \in {"bu_selector", "sku_selector", "other"}}

\* C21: no pending step ever made or stored names a subagent other than
\* bu_selector and sku_selector, and no stored session carries the error of the
\* unsupported-subagent branch.
C21_UnsupportedUnreachable ==
    /\ \A sid \in Stored :
          /\ HasPendingStep(SESSION_STORE[sid])
             => SESSION_STORE[sid].pending_step.subagentName \in KnownSubagents
          /\ SESSION_STORE[sid].error \notin UnsupportedErrors
    /\ \A sid \in SessionIds : \A i \in 1..Len(steps_created[sid]) :
          steps_created[sid][i].subagentName \in KnownSubagents
    /\ \A sid \in SessionIds : \A i \in 1..Len(accepted[sid]) :
          accepted[sid][i].subagentName \in KnownSubagents

C21_Witness ==
    \E sid \in Stored :
        /\ HasPendingStep(SESSION_STORE[sid])
        /\ SESSION_STORE[sid].pending_step.subagentName = "sku_selector"
        /\ Len(accepted[sid]) = 1
        /\ Len(steps_created[sid]) = 3

\* the SessionStatus values this core writes
ProducedStatuses == {"PENDING_APPROVAL", "COMPLETED", "REJECTED", "FAILED"}

\* C22: the status of every stored session, and the status every call
\* returns, is PENDING_APPROVAL, COMPLETED, REJECTED or FAILED, never
\* IN_PROGRESS.
C22_NeverInProgress ==
    /\ \A sid \in Stored : SESSION_STORE[sid].status \in ProducedStatuses
    /\ response.envelope # None => response.envelope.status \in ProducedStatuses

C22_Witness ==
    \E sid \in Stored :
        /\ SESSION_STORE[sid].status = "FAILED"
        /\ SESSION_STORE[sid].error = "No eligible business unit recommendations generated."
        /\ Len(accepted[sid]) = 1
        /\ response.envelope # None
        /\ response.envelope.status = "FAILED"

\* the recommendations a session holds: those of its draft and of its final result
HeldRecommendations(state) ==
    DictGet(state.draft, "buRecommendations", << >>)
    \o (IF state.final_result = None THEN << >> ELSE state.final_result.buRecommendations)

\* C23: finalScore and confidence of every recommendation a session holds lie
\* in [0, 1], and the heuristic strategy gives each unit the confidence
\* min(0.99, 0.45 + score * 0.45) of its score.
C23_ScoresInUnitInterval ==
    \A sid \in Stored :
        LET state == SESSION_STORE[sid]
            held == HeldRecommendations(state)
            facts == _normalize_fact_map(state.lead_snapshot.facts)
            heuristic == _heuristic_bu_selection(state.lead_snapshot, state.business_units,
                                                 get_routing_constraints)
        IN  /\ \A i \in 1..Len(held) :
                  /\ held[i].finalScore \in 0..10000
                  /\ held[i].confidence \in 0..10000
            /\ \A i \in 1..Len(heuristic) :
                  LET score == _score_business_unit(heuristic[i].businessUnitCode, facts).score
                  IN  /\ heuristic[i].finalScore = score
                      /\ heuristic[i].confidence
                            = (IF 4500 + (score * 45) \div 100 > 9900
                               THEN 9900 ELSE 4500 + (score * 45) \div 100)

----------------------------------------------------------------------------
(* graph.py: _heuristic_bu_selection called directly, on the catalogs, fact  *)
(* lists and caps of the sets below                                          *)

\* catalog length in the direct calls of the heuristic
MaxCatalogLen == 3

\* the catalogs: every sequence of up to MaxCatalogLen different codes
RECURSIVE CatalogsOfLen(_)
CatalogsOfLen(n) ==
    IF n = 0 THEN {<< >>}
    ELSE {Append(c, [code |-> code]) :
             c \in CatalogsOfLen(n - 1),
             code \in {"GCAST", "MAKNA", "SAG", "STARKEN_AAC", "STARKEN_DRYMIX"}}

HeuristicCatalogs ==
    {c \in UNION {CatalogsOfLen(n) : n \in 0..MaxCatalogLen} :
        \A i, j \in 1..Len(c) : c[i].code = c[j].code => i = j}

\* the LeadFact rows of the lead
HeuristicFacts ==
    { << >>,
      << [factKey |-> "project_type", factValue |-> "commercial"],
         [factKey |-> "development_type", factValue |-> "fit_out"] >>,
      << [factKey |-> "project_type", factValue |-> "Infrastructure"] >>,
      << [factKey |-> "project_stage", factValue |-> "tender"],
         [factKey |-> "project_type", factValue |-> "residential"] >>,
      << [factKey |-> "development_type", factValue |-> "new_build"] >>,
      get_lead_snapshot("lead-1").facts }

\* constraints.maxBusinessUnits
HeuristicCaps == 0..3

HeuristicSelection(facts, business_units, top_n) ==
    /\ probe = NoProbe
    /\ probe' = [fn |-> "_heuristic_bu_selection",
                 facts |-> facts, business_units |-> business_units, top_n |-> top_n,
                 result |-> _heuristic_bu_selection([lead |-> [id |-> "lead-1"], facts |-> facts],
                               business_units, [maxBusinessUnits |-> top_n])]
    /\ UNCHANGED <<SESSION_STORE, DEEP_AGENT_RUNTIME, settings, steps_created, accepted,
                   response, calls>>

NextHeuristic ==
    \E facts \in HeuristicFacts, business_units \in HeuristicCatalogs, top_n \in HeuristicCaps :
        HeuristicSelection(facts, business_units, top_n)

SpecHeuristic == Init /\ [][NextHeuristic]_vars

\* the score the heuristic ranks catalog entry i by
UnitScore(business_units, facts, i) ==
    _score_business_unit(business_units[i].code, _normalize_fact_map(facts)).score

\* catalog entry j goes before entry i: higher score, or the same score and
\* earlier in the catalog
UnitBefore(business_units, facts, j, i) ==
    \/ UnitScore(business_units, facts, j) > UnitScore(business_units, facts, i)
    \/ UnitScore(business_units, facts, j) = UnitScore(business_units, facts, i) /\ j < i

\* C24: the heuristic returns min(maxBusinessUnits, catalog length) entries,
\* entry k being the catalog unit that exactly k-1 units go before (higher
\* score, or equal score and earlier in the catalog); with project_type
\* commercial and development_type fit_out, SAG is ranked ahead of STARKEN_AAC
\* whatever their catalog order.
C24_HeuristicOrder ==
    probe.fn = "_heuristic_bu_selection"
    => LET bus == probe.business_units
           res == probe.result
       IN  /\ Len(res) = (IF probe.top_n < Len(bus) THEN probe.top_n ELSE Len(bus))
           /\ \A k \in 1..Len(res) :
                 \E i \in 1..Len(bus) :
                    /\ res[k].businessUnitCode = bus[i].code
                    /\ res[k].finalScore = UnitScore(bus, probe.facts, i)
                    /\ Cardinality({j \in 1..Len(bus) :
                           UnitBefore(bus, probe.facts, j, i)}) = k - 1
           /\ \A k \in 1..(Len(res) - 1) : res[k].finalScore >= res[k + 1].finalScore
           /\ (/\ probe.facts = << [factKey |-> "project_type", factValue |-> "commercial"],
                                   [factKey |-> "development_type", factValue |-> "fit_out"] >>
               /\ probe.top_n >= 2
               /\ {bus[i].code : i \in 1..Len(bus)} = {"SAG", "STARKEN_AAC"})
              => /\ res[1].businessUnitCode = "SAG"
                 /\ res[2].businessUnitCode = "STARKEN_AAC"

C24_Witness ==
    /\ probe.fn = "_heuristic_bu_selection"
    /\ probe.facts = << [factKey |-> "project_type", factValue |-> "commercial"],
                        [factKey |-> "development_type", factValue |-> "fit_out"] >>
    /\ probe.business_units = << [code |-> "SAG"], [code |-> "STARKEN_AAC"] >>
    /\ probe.top_n = 3
    /\ Len(probe.result) = 2
    /\ probe.result[1].businessUnitCode = "SAG"
    /\ probe.result[1].finalScore = 6900
    /\ probe.result[2].finalScore = 6300

----------------------------------------------------------------------------
(* main.py: two handler threads deciding on one session id.  The decision    *)
(* handler is a plain def function that calls apply_step_decision without a  *)
(* lock, and the server runs such handlers on worker threads; the state      *)
(* object SESSION_STORE holds is shared by the calls that looked it up.      *)

HandlerThreads == {"t1", "t2"}
RaceId == "session-1"

\* start_graph_session, once, before the decisions are sent
RaceStart(leadId, business_units) ==
    /\ RaceId \notin Stored
    /\ start_graph_session(StartSessionRequest(RaceId, leadId), business_units)
    /\ UNCHANGED <<DEEP_AGENT_RUNTIME, settings, probe, calls>>

\* lines 412-430 in thread t: the lookup and the guards
RaceLookup(t, step_id, decision) ==
    /\ calls[t] = Idle
    /\ LET state == StoreGet(SESSION_STORE, RaceId)
       IN  IF DecisionGuard(state, step_id) # ""
           THEN /\ response' = Raised("ValueError", DecisionGuard(state, step_id))
                /\ UNCHANGED calls
           ELSE /\ calls' = [calls EXCEPT ![t] =
                       [pc |-> "decide_log", step_id |-> step_id, decision |-> decision,
                        pending |-> state.pending_step]]
                /\ UNCHANGED response
    /\ UNCHANGED <<SESSION_STORE, DEEP_AGENT_RUNTIME, settings, probe, steps_created, accepted>>

\* lines 443-455 in thread t: state.agent_messages.append(...)
RaceLog(t) ==
    /\ calls[t].pc = "decide_log"
    /\ SESSION_STORE' = [SESSION_STORE EXCEPT ![RaceId].agent_messages =
           Append(@, DecisionMessage(calls[t].pending, calls[t].decision))]
    /\ calls' = [calls EXCEPT ![t].pc = "decide_stage"]
    /\ UNCHANGED <<DEEP_AGENT_RUNTIME, settings, probe, steps_created, accepted, response>>

\* lines 457-611 in thread t: the stage with the pending step the thread read,
\* its writes to the shared state object, and the return
RaceStage(t, answer, searchAnswer) ==
    /\ calls[t].pc = "decide_stage"
    /\ IF calls[t].decision.decision = "APPROVE"
          /\ calls[t].pending.subagentName = "bu_selector"
       THEN Len(steps_created[RaceId]) < MaxStepIds
       ELSE TRUE
    /\ CommitDecision(RaceId, calls[t].step_id, calls[t].decision, calls[t].pending,
           StageResult(SESSION_STORE[RaceId], calls[t].pending, calls[t].decision,
                       DEEP_AGENT_RUNTIME, settings, answer, DbOk, searchAnswer,
                       uuid4(RaceId)))
    /\ calls' = [calls EXCEPT ![t] = Idle]
    /\ UNCHANGED <<DEEP_AGENT_RUNTIME, settings, probe>>

\* what the runtime may do during the stage of thread t: raise, or return the
\* well-formed answer
RaceAnswers(t) ==
    IF calls[t].pc = "decide_stage" /\ DEEP_AGENT_RUNTIME = "runtime"
    THEN {[raises |-> TRUE], [raises |-> FALSE, raw |-> PyStr(GoodJson)]}
    ELSE {[raises |-> TRUE]}

InitRace ==
    /\ SESSION_STORE = [sid \in {} |-> NoSession]
    /\ \E env \in ThreadEnvironments :
          /\ DEEP_AGENT_RUNTIME = env.runtime
          /\ settings = env.settings
    /\ steps_created = [sid \in {RaceId} |-> << >>]
    /\ accepted = [sid \in {RaceId} |-> << >>]
    /\ response = Raised("", "")
    /\ calls = [t \in HandlerThreads |-> Idle]
    /\ probe = NoProbe

NextRace ==
    \/ \E leadId \in LeadIds, business_units \in Catalogs : RaceStart(leadId, business_units)
    \/ \E t \in HandlerThreads :
          \/ \E step_id \in {<<RaceId, n>> : n \in 0..Len(steps_created[RaceId])},
                d \in Decisions :
             \E reviewerId \in ReviewerIds, reason \in Reasons(d) :
                RaceLookup(t, step_id, StepDecisionRequest(d, reviewerId, reason))
          \/ RaceLog(t)
          \/ \E answer \in RaceAnswers(t) : RaceStage(t, answer, "raises")

SpecRace == InitRace /\ [][NextRace]_vars

\* C25: of the decisions two handler threads send for one session, one runs
\* at a time; no step id is accepted twice; and when no call is running the
\* session has a pending step iff its status is PENDING_APPROVAL, with an
\* error only when REJECTED or FAILED.
C25_DecisionsSerialized ==
    /\ \A t, u \in HandlerThreads : (calls[t] # Idle /\ calls[u] # Idle) => t = u
    /\ \A i, j \in 1..Len(accepted[RaceId]) :
          accepted[RaceId][i].stepId = accepted[RaceId][j].stepId => i = j
    /\ (RaceId \in Stored /\ \A t \in HandlerThreads : calls[t] = Idle)
       => LET state == SESSION_STORE[RaceId]
          IN  /\ HasPendingStep(state) <=> state.status = "PENDING_APPROVAL"
              /\ state.error # NoneStr <=> state.status \in {"REJECTED", "FAILED"}

\* C26: a Decide call that raises in a collaborator of its stage (not the
\* not-found refusal) leaves the session's audit log, draft, status, pending
\* step and final result as they were before the call.
C26_RaisingLeavesSession ==
    [][\A sid \in Stored :
          (/\ response'.raised # ""
           /\ response'.detail = ""
           /\ \E step_id \in StepIds : WouldAccept(sid, step_id) /\ DecideCall(sid, step_id, "APPROVE"))
          => /\ sid \in DOMAIN SESSION_STORE'
             /\ SESSION_STORE'[sid].agent_messages = SESSION_STORE[sid].agent_messages
             /\ SESSION_STORE'[sid].draft = SESSION_STORE[sid].draft
             /\ SESSION_STORE'[sid].status = SESSION_STORE[sid].status
             /\ SESSION_STORE'[sid].pending_step = SESSION_STORE[sid].pending_step
             /\ SESSION_STORE'[sid].final_result = SESSION_STORE[sid].final_result]_vars

\* the codes of the business units captured at Start
CatalogCodes(state) == {state.business_units[i].code : i \in 1..Len(state.business_units)}

\* C27: every code in the recommendations a session holds (draft and final
\* result) is the code of a unit of the catalog captured at Start, and no code
\* occurs twice in a list.
C27_CodesFromCatalogOnce ==
    \A sid \in Stored :
        LET state == SESSION_STORE[sid]
            drafted == DictGet(state.draft, "buRecommendations", << >>)
            final == IF state.final_result = None THEN << >>
                     ELSE state.final_result.buRecommendations
        IN  /\ \A i \in 1..Len(drafted) : drafted[i].businessUnitCode \in CatalogCodes(state)
            /\ \A i, j \in 1..Len(drafted) :
                  drafted[i].businessUnitCode = drafted[j].businessUnitCode => i = j
            /\ \A i \in 1..Len(final) : final[i].businessUnitCode \in CatalogCodes(state)
            /\ \A i, j \in 1..Len(final) :
                  final[i].businessUnitCode = final[j].businessUnitCode => i = j

\* C28: in every state, a stored session has an error iff its status is
\* REJECTED or FAILED and a final result iff its status is COMPLETED, so a
\* PENDING_APPROVAL session has neither.
C28_ErrorAndResultMatchStatus ==
    \A sid \in Stored :
        LET state == SESSION_STORE[sid]
        IN  /\ state.error # NoneStr <=> state.status \in {"REJECTED", "FAILED"}
            /\ state.final_result # None <=> state.status = "COMPLETED"
            /\ state.status = "PENDING_APPROVAL"
               => state.error = NoneStr /\ state.final_result = None

\* C29: whenever a step leaves a session COMPLETED, the buRecommendations of
\* its final result are those of its draft, their codes, roles and
\* confidences are the preview of the BU_SELECTION_DRAFT message in its audit
\* log, and, if the step is the one that completed it, the preview in the
\* request payload of the sku_selector step that was pending.
C29_FinalMatchesApproved ==
    [][\A sid \in DOMAIN SESSION_STORE' :
          SESSION_STORE'[sid].status = "COMPLETED"
          => LET after == SESSION_STORE'[sid]
                 final == after.final_result.buRecommendations
                 log == after.agent_messages
             IN  /\ "buRecommendations" \in DOMAIN after.draft
                 /\ final = after.draft["buRecommendations"]
                 /\ \E k \in 1..Len(log) : log[k].messageType = "BU_SELECTION_DRAFT"
                 /\ \A k \in 1..Len(log) :
                       log[k].messageType = "BU_SELECTION_DRAFT"
                       => log[k].evidenceRefs.recommendations = Preview(final)
                 /\ IF sid \in Stored
                    THEN IF HasPendingStep(SESSION_STORE[sid])
                         THEN /\ SESSION_STORE[sid].pending_step.subagentName = "sku_selector"
                              /\ SESSION_STORE[sid].pending_step.requestPayload.buRecommendations
                                    = Preview(final)
                              /\ final = SESSION_STORE[sid].draft["buRecommendations"]
                         ELSE TRUE
                    ELSE FALSE]_vars

\* C30: the session stored under an id accepts at most two Decide calls (one
\* per stage) from its Start on, and is terminal once two were accepted.
C30_AtMostTwoDecisions ==
    \A sid \in Stored :
        /\ Len(accepted[sid]) <= 2
        /\ Len(accepted[sid]) = 2 => SESSION_STORE[sid].status \in TerminalStatuses

====
